---- MODULE Spec2Model ----
(***************************************************************************)
(* GuassRankScaler (src/preprocessors/gauss_rank_scaler.py): fit builds    *)
(* one interpolation mapping per column from the ranks of the column's     *)
(* distinct values; transform applies the mapping and erfinv;              *)
(* inverse_transform applies erf and the mapping with its axes swapped.    *)
(* The per-column work is fanned out through joblib's Parallel.            *)
(*                                                                         *)
(* Numbers are exact: a float is a record [k, n, d], k = "fin" for the     *)
(* rational n/d (d > 0, reduced), or "nan", "inf", "ninf" for the IEEE     *)
(* specials numpy produces (division by zero warns and does not raise).    *)
(* Rounding is not modelled.  A finite score is the symbolic value         *)
(* erfinv(n/d), k = "erfinv".                                              *)
(***************************************************************************)
EXTENDS Integers, Sequences, FiniteSets, TLC

VARIABLES epsilon, n_jobs, minval, interp_func_, call, ret, fitState, replaced

vars == <<epsilon, n_jobs, minval, interp_func_, call, ret, fitState, replaced>>

(* ------------------------------ bounds --------------------------------- *)

\* Largest raw value of a column in the single-column specification.
MaxVal == 2

\* Most rows of a column in the single-column specification.
MaxRows == 3

\* Most columns of an input matrix.
MaxCols == 2

\* Largest worker count.
MaxJobs == 2

(* ----------------------------- arithmetic ------------------------------ *)

Abs(i) == IF i < 0 THEN -i ELSE i

RECURSIVE GCD(_, _)
GCD(a, b) == IF b = 0 THEN a ELSE GCD(b, a % b)

NaN == [k |-> "nan", n |-> 0, d |-> 1]

PInf == [k |-> "inf", n |-> 0, d |-> 1]

NInf == [k |-> "ninf", n |-> 0, d |-> 1]

\* The rational n/d, d # 0, reduced and with the sign in the numerator.
Fin(n, d) ==
    LET s == IF d < 0 THEN -1 ELSE 1
        g == GCD(Abs(n), Abs(d))
    IN  [k |-> "fin", n |-> (s * n) \div g, d |-> (s * d) \div g]

\* (n1/d1) * (n2/d2), cancelled across before multiplying to keep the
\* integers small; d1 # 0, d2 # 0.
Ratio(n1, d1, n2, d2) ==
    LET g1 == GCD(Abs(n1), Abs(d2))
        g2 == GCD(Abs(n2), Abs(d1))
        h1 == IF g1 = 0 THEN 1 ELSE g1
        h2 == IF g2 = 0 THEN 1 ELSE g2
    IN  Fin((n1 \div h1) * (n2 \div h2), (d1 \div h2) * (d2 \div h1))

Num(i) == [k |-> "fin", n |-> i, d |-> 1]

IsFin(a) == a.k = "fin"

\* -1, 0 or 1; inf and ninf have a sign, nan has none (0).
Sign(a) ==
    CASE a.k = "fin" -> (IF a.n > 0 THEN 1 ELSE IF a.n < 0 THEN -1 ELSE 0)
      [] a.k = "inf" -> 1
      [] a.k = "ninf" -> -1
      [] OTHER -> 0

Signed(s) == IF s > 0 THEN PInf ELSE NInf

Neg(a) ==
    CASE a.k = "fin" -> Fin(-a.n, a.d)
      [] a.k = "inf" -> NInf
      [] a.k = "ninf" -> PInf
      [] OTHER -> NaN

Add(a, b) ==
    CASE a.k = "nan" \/ b.k = "nan" -> NaN
      [] IsFin(a) /\ IsFin(b) ->
            LET g == GCD(a.d, b.d)
            IN  Fin(a.n * (b.d \div g) + b.n * (a.d \div g), (a.d \div g) * b.d)
      [] IsFin(a) -> b
      [] IsFin(b) -> a
      [] OTHER -> IF a.k = b.k THEN a ELSE NaN

Sub(a, b) == Add(a, Neg(b))

Mul(a, b) ==
    CASE a.k = "nan" \/ b.k = "nan" -> NaN
      [] IsFin(a) /\ IsFin(b) -> Ratio(a.n, a.d, b.n, b.d)
      [] Sign(a) = 0 \/ Sign(b) = 0 -> NaN
      [] OTHER -> Signed(Sign(a) * Sign(b))

\* IEEE division; a zero divisor here is always the +0.0 of v - v.
Div(a, b) ==
    CASE a.k = "nan" \/ b.k = "nan" -> NaN
      [] IsFin(a) /\ IsFin(b) ->
            IF b.n # 0 THEN Ratio(a.n, a.d, b.d, b.n)
            ELSE IF a.n = 0 THEN NaN ELSE Signed(a.n)
      [] IsFin(a) -> Num(0)
      [] IsFin(b) -> Signed(Sign(a) * (IF Sign(b) < 0 THEN -1 ELSE 1))
      [] OTHER -> NaN

\* a < b; every comparison with nan is false.
Less(a, b) ==
    CASE a.k = "nan" \/ b.k = "nan" -> FALSE
      [] IsFin(a) /\ IsFin(b) ->
            LET g == GCD(a.d, b.d)
            IN  a.n * (b.d \div g) < b.n * (a.d \div g)
      [] a.k = "ninf" -> b.k # "ninf"
      [] b.k = "inf" -> a.k # "inf"
      [] OTHER -> FALSE

\* The order numpy sorts and searches by: nan after everything else.
SortsBefore(a, b) == IF b.k = "nan" THEN a.k # "nan" ELSE Less(a, b)

\* np.clip(a, lo, hi) = minimum(maximum(a, lo), hi); nan propagates.
Clip(a, lo, hi) ==
    IF a.k = "nan" THEN NaN
    ELSE LET m == IF Less(a, lo) THEN lo ELSE a
         IN  IF Less(hi, m) THEN hi ELSE m

\* scipy.special.erfinv: finite inside (-1, 1), infinite at +-1, nan outside.
erfinv(q) ==
    CASE q.k # "fin" -> NaN
      [] Abs(q.n) < q.d -> [k |-> "erfinv", n |-> q.n, d |-> q.d]
      [] q.n = q.d -> PInf
      [] q.n = -q.d -> NInf
      [] OTHER -> NaN

\* scipy.special.erf, the inverse of erfinv on the finite scores.
erf(z) ==
    CASE z.k = "erfinv" -> Fin(z.n, z.d)
      [] z.k = "inf" -> Num(1)
      [] z.k = "ninf" -> Num(-1)
      [] OTHER -> NaN

(* ------------------------------- arrays -------------------------------- *)

Range(s) == {s[i] : i \in DOMAIN s}

Max(S) == CHOOSE m \in S : \A e \in S : e <= m

\* np.argsort(s, kind="mergesort"): the indices of s in sorted order, ties
\* in their original order (1-based here).
RECURSIVE ArgsortUpTo(_, _)
ArgsortUpTo(s, k) ==
    IF k = 0 THEN <<>>
    ELSE LET prev == ArgsortUpTo(s, k - 1)
             \* stable: i goes after every earlier index that does not sort after it
             place[j \in 0..Len(prev)] ==
                 IF j = 0 THEN 0
                 ELSE IF SortsBefore(s[k], s[prev[j]]) THEN place[j - 1] ELSE j
             p == place[Len(prev)]
         IN  SubSeq(prev, 1, p) \o <<k>> \o SubSeq(prev, p + 1, Len(prev))

argsort(s) == ArgsortUpTo(s, Len(s))

\* s[ind]: fancy indexing by an index array.
Take(s, ind) == [i \in 1..Len(ind) |-> s[ind[i]]]

\* Python's s[i] for a 0-based index i, negative i counting from the end.
PyIndex(s, i) == IF i < 0 THEN s[Len(s) + i + 1] ELSE s[i + 1]

\* np.searchsorted(a, v) (side='left') by bisection: the 0-based insertion
\* point of v in the sorted array a.
RECURSIVE Bisect(_, _, _, _)
Bisect(a, v, lo, hi) ==
    IF lo >= hi THEN lo
    ELSE LET mid == lo + ((hi - lo) \div 2)
         IN  IF SortsBefore(PyIndex(a, mid), v) THEN Bisect(a, v, mid + 1, hi)
             ELSE Bisect(a, v, lo, mid)

searchsorted(a, v) == Bisect(a, v, 0, Len(a))

\* ndarray.clip(lo, hi) on an index: minimum(maximum(i, lo), hi), which is hi
\* when lo > hi.
ClipIndex(i, lo, hi) ==
    LET m == IF i < lo THEN lo ELSE i
    IN  IF m > hi THEN hi ELSE m

(* ------------------------ scipy.interpolate.interp1d ------------------- *)

\* What a per-column task hands back: err is "" or the exception it raised;
\* x, y are the control points of a mapping (fit); z, q are the values and
\* the quantiles of a transformed column (transform, inverse_transform).
Raised(e) == [err |-> e, x |-> <<>>, y |-> <<>>, z |-> <<>>, q |-> <<>>]

Mapping(xs, ys) == [err |-> "", x |-> xs, y |-> ys, z |-> <<>>, q |-> <<>>]

Column(zs, qs) == [err |-> "", x |-> <<>>, y |-> <<>>, z |-> zs, q |-> qs]

\* interp1d(xs, ys, kind='linear', fill_value='extrapolate'): the points
\* sorted by xs (assume_sorted=False), refused when there are fewer than mv.
interp1d(xs, ys, mv) ==
    IF Len(xs) < mv THEN Raised("ValueError")
    ELSE LET ind == argsort(xs)
         IN  Mapping(Take(xs, ind), Take(ys, ind))

\* The mutation of Interpolate that clamps to the end control points
\* instead of extending the end segments.
InterpolateClamped(f, v) ==
    IF Len(f.x) >= 2 /\ Less(v, f.x[1]) THEN f.y[1]
    ELSE IF Len(f.x) >= 2 /\ Less(f.x[Len(f.x)], v) THEN f.y[Len(f.y)]
    ELSE LET i  == ClipIndex(searchsorted(f.x, v), 1, Len(f.x) - 1)
             lo == i - 1
             slope == Div(Sub(PyIndex(f.y, i), PyIndex(f.y, lo)),
                          Sub(PyIndex(f.x, i), PyIndex(f.x, lo)))
         IN  Add(Mul(slope, Sub(v, PyIndex(f.x, lo))), PyIndex(f.y, lo))

\* interp1d._call_linear with fill_value='extrapolate' (no bounds check):
\* the segment is chosen by searchsorted, clipped to the first and the last
\* segment, and its line is evaluated at v wherever v lies.
Interpolate(f, v) ==
    LET i  == ClipIndex(searchsorted(f.x, v), 1, Len(f.x) - 1)
        lo == i - 1
        hi == i
        x_lo == PyIndex(f.x, lo)
        x_hi == PyIndex(f.x, hi)
        y_lo == PyIndex(f.y, lo)
        y_hi == PyIndex(f.y, hi)
        slope == Div(Sub(y_hi, y_lo), Sub(x_hi, x_lo))
    IN  Add(Mul(slope, Sub(v, x_lo)), y_lo)

(* ---------------------------- GuassRankScaler -------------------------- *)

\* The mutation of drop_duplicates that keeps every row.
KeepDuplicates(x) == x

\* drop_duplicates: the rows at np.unique's return_index (each value's first
\* occurrence), in their original order.
drop_duplicates(x) ==
    LET k == [i \in DOMAIN x |-> \A j \in 1..(i - 1) : x[j] # x[i]]
        F[i \in 0..Len(x)] ==
            IF i = 0 THEN <<>>
            ELSE IF k[i] THEN Append(F[i - 1], x[i]) ELSE F[i - 1]
    IN  F[Len(x)]

\* rank = np.argsort(np.argsort(x)), 0-based.
Rank(x) ==
    LET inner == argsort(x)
        r == argsort([i \in DOMAIN inner |-> Num(inner[i])])
    IN  [i \in DOMAIN r |-> r[i] - 1]

\* bound = 1.0 - self.epsilon
Bound(eps) == Sub(Num(1), eps)

\* factor = np.max(rank) / 2.0 * bound
Factor(rank, bound) ==
    Mul(Div(Num(Max(Range(rank))), Num(2)), bound)

\* rank / factor - bound, before the clip.
Unclipped(r, factor, bound) == Sub(Div(Num(r), factor), bound)

\* scaled_rank = np.clip(rank / factor - bound, -bound, bound)
ScaledRank(rank, bound) ==
    LET factor == Factor(rank, bound)
    IN  [i \in DOMAIN rank |->
            Clip(Unclipped(rank[i], factor, bound), Neg(bound), bound)]

\* _fit(x): the mapping of one column, or the exception interp1d raises.
Fit_(x, eps, mv) ==
    LET u == drop_duplicates(x)
        rank == Rank(u)
        bound == Bound(eps)
    IN  interp1d(u, ScaledRank(rank, bound), mv)

\* _transform(i, x): erfinv of the mapping of column i at every row of x;
\* self.interp_func_[i] raises IndexError past the stored mappings.
Transform_(funcs, i, x) ==
    IF i > Len(funcs) THEN Raised("IndexError")
    ELSE LET q == [r \in DOMAIN x |-> Interpolate(funcs[i], x[r])]
         IN  Column([r \in DOMAIN x |-> erfinv(q[r])], q)

\* _inverse_transform(i, x): the mapping of column i with its axes swapped,
\* rebuilt by interp1d, at erf of every row of x.
InverseTransform_(funcs, i, x, mv) ==
    IF i > Len(funcs) THEN Raised("IndexError")
    ELSE LET inv == interp1d(funcs[i].y, funcs[i].x, mv)
             q == [r \in DOMAIN x |-> erf(x[r])]
         IN  IF inv.err # "" THEN inv
             ELSE Column([r \in DOMAIN x |-> Interpolate(inv, q[r])], q)

(* ------------------------------ the inputs ----------------------------- *)

\* A matrix X is the sequence of its columns (X.T); a column is the sequence
\* of its rows.
AsColumn(s) == [i \in DOMAIN s |-> Num(s[i])]

\* Every sequence over S of length 1..n.
SeqsUpTo(S, n) == UNION {[1..m -> S] : m \in 1..n}

\* epsilon=1e-4, the constructor's default.
DefaultEpsilon == Fin(1, 10000)

\* The boundary margins of the single-column specification, all in (0, 1).
Epsilons == {DefaultEpsilon, Fin(1, 4), Fin(1, 2)}

\* interp1d's least number of points for kind='linear': 2 in the older
\* scipy releases, 1 in the newer ones.  The repository pins no release.
Minvals == {1, 2}

\* The columns the matrices of the full specification are made of: a
\* constant one and an unsorted one with a repeated value.
MenuColumns == {AsColumn(<<1, 1, 1>>), AsColumn(<<2, 0, 2>>)}

\* An input check_array rejects (force_all_finite=True).
NonFinite == <<<<NaN, Num(0), Num(1)>>>>

FitInputs == SeqsUpTo(MenuColumns, MaxCols) \cup {NonFinite}

\* One-row matrices: a value inside and a value above the fitted range.
TransformInputs == SeqsUpTo({<<Num(0)>>, <<Num(3)>>}, MaxCols)

InverseInputs == SeqsUpTo({<<erfinv(Num(0))>>}, MaxCols) \cup {<<<<PInf>>>>}

\* Single-column matrices: every column of 1..MaxRows rows over 0..MaxVal.
ColumnFitInputs ==
    {<<AsColumn(c)>> : c \in SeqsUpTo(0..MaxVal, MaxRows)}

\* 1 x 1 matrices from one below the least to one above the largest value.
ColumnTransformInputs == {<<<<Num(v)>>>> : v \in (-1)..(MaxVal + 1)}

ColumnInverseInputs ==
    {<<<<erfinv(Fin(n, 4))>>>> : n \in (-3)..3} \cup {<<<<PInf>>>>}

(* ------------------------------- the state ----------------------------- *)

Idle ==
    [op |-> "idle", X |-> <<>>, next |-> 1, running |-> {}, results |-> <<>>,
     order |-> <<>>, origin |-> <<>>]

NoRet ==
    [op |-> "none", status |-> "none", X |-> <<>>, value |-> <<>>,
     quant |-> <<>>, order |-> <<>>, origin |-> <<>>]

\* An exception e leaving the call op(X).
Raise(op, X, e) ==
    [op |-> op, status |-> e, X |-> X, value |-> <<>>, quant |-> <<>>,
     order |-> <<>>, origin |-> <<>>]

\* No attribute interp_func_ until a fit has stored one.
Unset == [has |-> FALSE, funcs |-> <<>>]

\* check_array(X, force_all_finite=True)
AllFinite(X) ==
    \A j \in DOMAIN X : \A r \in DOMAIN X[j] : X[j][r].k \in {"fin", "erfinv"}

\* check_is_fitted(self, 'interp_func_')
IsFitted == interp_func_.has

\* The output of a transform that is being handed back to inverse_transform.
Fed == IF ret.op = "transform" /\ ret.status = "ok" THEN {ret.value} ELSE {}

\* __init__: the parameters are stored; nothing is fitted.
InitWith(E, J) ==
    /\ epsilon \in E
    /\ n_jobs \in J
    /\ minval \in Minvals
    /\ interp_func_ = Unset
    /\ call = Idle
    /\ ret = NoRet
    /\ fitState = "never"
    /\ replaced = 0

Init == InitWith({DefaultEpsilon}, 1..MaxJobs)

InitColumn == InitWith(Epsilons, {1})

\* Parallel(n_jobs)(delayed(f)(x) for x in X.T) begins: nothing dispatched.
Begin(op, X, origin) ==
    [op |-> op, X |-> X, next |-> 1, running |-> {}, results |-> <<>>,
     order |-> <<>>, origin |-> origin]

\* fit(X) up to the fan-out: check_array, then one _fit task per column.
fit(X) ==
    /\ call.op = "idle"
    /\ IF AllFinite(X)
       THEN /\ call' = Begin("fit", X, <<>>)
            /\ ret' = NoRet
            /\ UNCHANGED fitState
       ELSE /\ ret' = Raise("fit", X, "ValueError")
            /\ fitState' = "failed"
            /\ UNCHANGED call
    /\ UNCHANGED <<epsilon, n_jobs, minval, interp_func_, replaced>>

\* transform(X) up to the fan-out: check_is_fitted, check_array, then one
\* _transform task per column of X.
transform(X) ==
    /\ call.op = "idle"
    /\ IF ~IsFitted
       THEN ret' = Raise("transform", X, "NotFittedError") /\ UNCHANGED call
       ELSE IF ~AllFinite(X)
       THEN ret' = Raise("transform", X, "ValueError") /\ UNCHANGED call
       ELSE call' = Begin("transform", X, <<>>) /\ ret' = NoRet
    /\ UNCHANGED <<epsilon, n_jobs, minval, interp_func_, fitState, replaced>>

\* inverse_transform(X) up to the fan-out, as transform.
inverse_transform(X) ==
    /\ call.op = "idle"
    /\ IF ~IsFitted
       THEN ret' = Raise("inverse", X, "NotFittedError") /\ UNCHANGED call
       ELSE IF ~AllFinite(X)
       THEN ret' = Raise("inverse", X, "ValueError") /\ UNCHANGED call
       ELSE /\ call' = Begin("inverse", X, IF X \in Fed THEN ret.X ELSE <<>>)
            /\ ret' = NoRet
    /\ UNCHANGED <<epsilon, n_jobs, minval, interp_func_, fitState, replaced>>

\* Parallel hands the next column's task to a free worker, in input order.
Dispatch ==
    /\ call.op # "idle"
    /\ call.next <= Len(call.X)
    /\ Cardinality(call.running) < n_jobs
    /\ call' = [call EXCEPT !.next = @ + 1, !.running = @ \cup {call.next}]
    /\ UNCHANGED <<epsilon, n_jobs, minval, interp_func_, ret, fitState, replaced>>

\* The delayed function of column j of the call in flight.
Task(j) ==
    CASE call.op = "fit" -> Fit_(call.X[j], epsilon, minval)
      [] call.op = "transform" -> Transform_(interp_func_.funcs, j, call.X[j])
      [] OTHER -> InverseTransform_(interp_func_.funcs, j, call.X[j], minval)

\* A running task ends, in any order.  Its exception leaves the call: fit
\* has assigned nothing then.
Complete(j) ==
    /\ j \in call.running
    /\ LET r == Task(j)
       IN  IF r.err = ""
           THEN /\ call' = [call EXCEPT !.running = @ \ {j},
                                        !.results = (j :> r) @@ @,
                                        !.order = Append(@, j)]
                /\ UNCHANGED <<ret, fitState>>
           ELSE /\ call' = Idle
                /\ ret' = Raise(call.op, call.X, r.err)
                /\ fitState' = IF call.op = "fit" THEN "failed" ELSE fitState
    /\ UNCHANGED <<epsilon, n_jobs, minval, interp_func_, replaced>>

\* The mutation of Gather that lists the results as the tasks ended.
GatherByCompletion(results, order) ==
    [j \in 1..Len(order) |-> results[order[j]]]

\* Parallel's return value: the results in the order of the inputs.
Gather(results, order) ==
    [j \in 1..Len(order) |-> results[j]]

\* The mutation of Store that keeps the old mappings past the new ones.
StoreOver(old, new) ==
    [has |-> TRUE, funcs |-> new \o SubSeq(old.funcs, Len(new) + 1, Len(old.funcs))]

\* self.interp_func_ = <the list Parallel returned>
Store(old, new) == [has |-> TRUE, funcs |-> new]

\* Every task has ended: fit assigns interp_func_ and returns self;
\* transform and inverse_transform return np.array(results).T.
Return ==
    /\ call.op # "idle"
    /\ Len(call.order) = Len(call.X)
    /\ LET out == Gather(call.results, call.order)
       IN  /\ ret' = [op |-> call.op, status |-> "ok", X |-> call.X,
                      value |-> [j \in DOMAIN out |-> out[j].z],
                      quant |-> [j \in DOMAIN out |-> out[j].q],
                      order |-> call.order, origin |-> call.origin]
           /\ IF call.op = "fit"
              THEN /\ interp_func_' = Store(interp_func_, out)
                   /\ fitState' = "completed"
                   /\ replaced' = Len(interp_func_.funcs)
              ELSE UNCHANGED <<interp_func_, fitState, replaced>>
    /\ call' = Idle
    /\ UNCHANGED <<epsilon, n_jobs, minval>>

\* One instance, one caller: any matrices, up to MaxCols columns.
Next ==
    \/ \E X \in FitInputs : fit(X)
    \/ \E X \in TransformInputs : transform(X)
    \/ \E X \in InverseInputs \cup Fed : inverse_transform(X)
    \/ Dispatch
    \/ \E j \in 1..MaxCols : Complete(j)
    \/ Return

Spec == Init /\ [][Next]_vars

\* One instance fitted on single columns, any epsilon of Epsilons.
NextColumn ==
    \/ \E X \in ColumnFitInputs : fit(X)
    \/ \E X \in ColumnTransformInputs : transform(X)
    \/ \E X \in ColumnInverseInputs \cup Fed : inverse_transform(X)
    \/ Dispatch
    \/ \E j \in 1..MaxCols : Complete(j)
    \/ Return

SpecColumn == InitColumn /\ [][NextColumn]_vars

(* ------------------------------ the claims ----------------------------- *)

Funcs == interp_func_.funcs

Returned(op) == ret.op = op /\ ret.status = "ok"

\* The number of distinct values of col strictly smaller than v.
SmallerIn(col, v) == Cardinality({w \in Range(col) : Less(w, v)})

\* C1: round trip.  When inverse_transform is handed the output of
\* transform, every value that is a control point of its column's mapping
\* (a fit-time value; the mapping has at least 2 of them) comes back
\* unchanged.  Checked under SpecColumn.
C1_RoundTrip ==
    (Returned("inverse") /\ ret.origin # <<>>) =>
        \A j \in DOMAIN ret.origin :
            (j <= Len(Funcs) /\ Len(Funcs[j].x) >= 2) =>
                \A r \in DOMAIN ret.origin[j] :
                    ret.origin[j][r] \in Range(Funcs[j].x) =>
                        ret.value[j][r] = ret.origin[j][r]

\* C2: while no fit has completed since construction or since the last
\* failed fit, no transform or inverse_transform is computing, and the one
\* that returned last ended in NotFittedError.  Checked under Spec.
C2_NotFitted ==
    fitState # "completed" =>
        /\ call.op \notin {"transform", "inverse"}
        /\ ret.op \in {"transform", "inverse"} => ret.status = "NotFittedError"

\* C3: on a fitted instance a transform or inverse_transform whose input has
\* another column count than the stored mappings ends in an error, never in
\* an output.  Checked under Spec.
C3_ColumnCount ==
    (ret.op \in {"transform", "inverse"} /\ IsFitted
        /\ Len(ret.X) # Len(Funcs)) => ret.status # "ok"

\* C4: fitting a column with one distinct value returns without an error and
\* stores a finite quantile for it, and transforming through such a mapping
\* returns finite quantiles.  Checked under SpecColumn.
C4_SingleValue ==
    /\ ret.op = "fit" =>
          \A j \in DOMAIN ret.X :
              Cardinality(Range(ret.X[j])) = 1 =>
                  /\ ret.status = "ok"
                  /\ \A i \in DOMAIN Funcs[j].y : IsFin(Funcs[j].y[i])
    /\ (ret.op = "transform" /\ IsFitted) =>
          \A j \in DOMAIN ret.X :
              (j <= Len(Funcs) /\ Len(Funcs[j].x) = 1) =>
                  /\ ret.status = "ok"
                  /\ \A r \in DOMAIN ret.quant[j] : IsFin(ret.quant[j][r])

\* C5: whatever the worker count and the order the tasks end in, a call that
\* returns stores (fit) or returns (transform, inverse_transform) at column
\* j the result of the task of input column j with mapping j, which is the
\* sequential output.  Checked under Spec.
C5_ColumnOrder ==
    /\ Returned("fit") =>
          Funcs = [j \in DOMAIN ret.X |-> Fit_(ret.X[j], epsilon, minval)]
    /\ Returned("transform") =>
          ret.value = [j \in DOMAIN ret.X |-> Transform_(Funcs, j, ret.X[j]).z]
    /\ Returned("inverse") =>
          ret.value =
              [j \in DOMAIN ret.X |-> InverseTransform_(Funcs, j, ret.X[j], minval).z]

\* A two-column transform returned whose second task ended first and whose
\* columns differ.
C5_Witness ==
    /\ Returned("transform")
    /\ ret.order = <<2, 1>>
    /\ ret.value[1] # ret.value[2]

\* C6: lifecycle.  No mappings are held until a fit has returned; when a fit
\* returns, the instance holds exactly one mapping per column of that
\* fit's input, each built from that column alone, whatever it held before;
\* and only a returning fit changes what is held.  Checked under Spec.
C6_Lifecycle ==
    /\ [](fitState = "never" => interp_func_ = Unset)
    /\ [](Returned("fit") =>
            /\ IsFitted
            /\ Len(Funcs) = Len(ret.X)
            /\ \A j \in DOMAIN ret.X : Funcs[j] = Fit_(ret.X[j], epsilon, minval))
    /\ [][interp_func_' # interp_func_ =>
            (call.op = "fit" /\ ret'.op = "fit" /\ ret'.status = "ok")]_vars

\* A fit returned on fewer columns than the mappings it replaced.
C6_Witness ==
    /\ Returned("fit")
    /\ replaced > Len(Funcs)

\* C7: the mapping a fit stores for a column has one control point per
\* distinct value of the column and no other, and the rank of each distinct
\* value, from which its quantile is scaled, is the number of distinct
\* values strictly smaller.  Checked under SpecColumn.
C7_Ranks ==
    Returned("fit") =>
        \A j \in DOMAIN ret.X :
            LET col == ret.X[j]
                u == drop_duplicates(col)
                rank == Rank(u)
                bound == Bound(epsilon)
                f == Funcs[j]
            IN  /\ Len(f.x) = Cardinality(Range(col))
                /\ Range(f.x) = Range(col)
                /\ \A i \in DOMAIN u : rank[i] = SmallerIn(col, u[i])
                /\ \A k \in DOMAIN f.x :
                      f.y[k] = Clip(Unclipped(SmallerIn(col, f.x[k]),
                                              Factor(rank, bound), bound),
                                    Neg(bound), bound)

\* A fit returned on an unsorted column with a repeated value and at least
\* 2 distinct values.
C7_Witness ==
    /\ Returned("fit")
    /\ \E j \in DOMAIN ret.X :
          /\ Cardinality(Range(ret.X[j])) >= 2
          /\ Len(ret.X[j]) > Cardinality(Range(ret.X[j]))
          /\ \E a, b \in DOMAIN ret.X[j] : a < b /\ Less(ret.X[j][b], ret.X[j][a])

C9_StrictlyMonotone ==
    IsFitted =>
        \A j \in DOMAIN Funcs :
            \A a, b \in DOMAIN Funcs[j].x :
                Less(Funcs[j].x[a], Funcs[j].x[b]) =>
                    Less(Funcs[j].y[a], Funcs[j].y[b])

\* C10: for a fitted column with at least 2 distinct values, rank / factor -
\* bound is -bound at rank 0 and +bound at the largest rank, and the clip
\* changes the quantile of no control point.  Checked under SpecColumn.
C10_LinearScaling ==
    Returned("fit") =>
        \A j \in DOMAIN ret.X :
            LET u == drop_duplicates(ret.X[j])
                rank == Rank(u)
                bound == Bound(epsilon)
                factor == Factor(rank, bound)
            IN  Len(u) >= 2 =>
                    \A i \in DOMAIN rank :
                        LET q == Unclipped(rank[i], factor, bound)
                        IN  /\ rank[i] = 0 => q = Neg(bound)
                            /\ rank[i] = Max(Range(rank)) => q = bound
                            /\ Clip(q, Neg(bound), bound) = q

====
